---- MODULE Spec2Model ----
(***************************************************************************)
(* Model of usrp3/tools/scripts/make.py: the generator of the RFNoC block  *)
(* instantiation file.  One run of the script is main(): create_vfiles,    *)
(* file_generator, append_item_into_file (one step per include directory), *)
(* build, and the process exit.  The script can be run again on the same   *)
(* build tree (Rerun), which is what the idempotence statements are about. *)
(*                                                                         *)
(* Text files are sequences of tokens: "\n" is the newline, the other      *)
(* tokens are pieces of text that contain no newline and do not overlap    *)
(* each other.  A literal pattern is a sequence of tokens, re.findall on   *)
(* an escaped literal is the search of non-overlapping occurrences, and    *)
(* str.replace replaces every non-overlapping occurrence, left to right.   *)
(* Environment hypothesis: the companion Makefile.srcs files exist.        *)
(***************************************************************************)
EXTENDS Integers, Sequences, FiniteSets, TLC

\* ------------------------------------------------------------------ bounds
MaxLen == 3            \* longest block list on the command line
MaxSlots == 3          \* largest --max-num-blocks
MaxDestLen == 4        \* tokens in the destination Makefile.srcs
MaxOotLen == 3         \* tokens in the companion Makefile.srcs
MaxRuns == 2           \* runs of the script on the same tree

\* ----------------------------------------------------------- value spaces
None == "None"
NL == "\n"
BlockNames == {"a", "a2"}
Devices == {"x300", "x310", "e300", "e310", "X310", "b200"}
Targets == {None, "X3X0_RFNOC_XG"}
OutFiles == {None, "out.v"}
Dir1 == "oot1/"
Dir2 == "oot2/"
\* os.system on a POSIX host returns the wait status of the shell:
\* exit code * 256 for a normal exit, the signal number for a kill.
ShellOutcomes == {[kind |-> "exited", n |-> 0], [kind |-> "exited", n |-> 1],
                  [kind |-> "exited", n |-> 2], [kind |-> "exited", n |-> 127],
                  [kind |-> "signaled", n |-> 9]}

wait_status(o) == IF o.kind = "exited" THEN o.n * 256 ELSE o.n

RECURSIVE SeqsUpTo(_, _)
SeqsUpTo(S, n) ==
  IF n = 0 THEN {<<>>}
  ELSE LET shorter == SeqsUpTo(S, n - 1)
       IN shorter \cup {Append(s, x) : s \in {t \in shorter : Len(t) = n - 1}, x \in S}

\* ------------------------------------------------------------ text helpers
starts_with(s, p, at) ==
  /\ at + Len(p) - 1 <= Len(s)
  /\ \A k \in 1..Len(p) : s[at + k - 1] = p[k]

\* re.findall(re.escape(literal), s): the non-overlapping matches, in order
RECURSIVE findall_from(_, _, _)
findall_from(p, s, at) ==
  IF at > Len(s) THEN <<>>
  ELSE IF starts_with(s, p, at) THEN <<p>> \o findall_from(p, s, at + Len(p))
  ELSE findall_from(p, s, at + 1)

findall(p, s) == findall_from(p, s, 1)

\* str.replace(old, new): every non-overlapping occurrence, left to right
RECURSIVE replace_from(_, _, _, _)
replace_from(s, old, new, at) ==
  IF at > Len(s) THEN <<>>
  ELSE IF starts_with(s, old, at) THEN new \o replace_from(s, old, new, at + Len(old))
  ELSE <<s[at]>> \o replace_from(s, old, new, at + 1)

replace(s, old, new) == replace_from(s, old, new, 1)

\* file.readlines(): the lines with their newline kept; the last line may
\* have none
RECURSIVE readlines_from(_, _, _)
readlines_from(s, at, cur) ==
  IF at > Len(s) THEN (IF cur = <<>> THEN <<>> ELSE <<cur>>)
  ELSE IF s[at] = NL THEN <<Append(cur, NL)>> \o readlines_from(s, at + 1, <<>>)
  ELSE readlines_from(s, at + 1, Append(cur, s[at]))

readlines(s) == readlines_from(s, 1, <<>>)

\* "".join(list)
RECURSIVE join(_)
join(l) == IF l = <<>> THEN <<>> ELSE Head(l) \o join(Tail(l))

readfile(files) == readlines(files)

\* compare(file1, file2): the lines of file1 that are no line of file2
RECURSIVE notinside(_, _)
notinside(text1, text2) ==
  IF text1 = <<>> THEN <<>>
  ELSE (IF \E k \in 1..Len(text2) : text2[k] = Head(text1) THEN <<>> ELSE <<Head(text1)>>)
       \o notinside(Tail(text1), text2)

compare(file1, file2) == notinside(readlines(file1), readlines(file2))

prefixpattern(dirs) == <<"$(addprefix " \o dirs \o ", \\", NL>>
linepattern == <<"RFNOC_OOT_SRCS = \\", NL>>

\* ------------------------------------------------------------ create_vfiles
no_blocks(blocks) == Len(blocks) = 0

\* mutant of too_many: the bound on the block count is off by one
too_many_off_by_one(blocks, max_num_blocks) == Len(blocks) > max_num_blocks + 1

too_many(blocks, max_num_blocks) == Len(blocks) > max_num_blocks

num_ce(a) == IF ~a.fill_with_fifos THEN Len(a.blocks) ELSE a.max_num_blocks

\* mutant of instname: the count is written for the first occurrence too
instname_always_suffixed(block, count) == "inst_" \o block \o ToString(count)

\* "inst_{}{}".format(block, "" if block_count[block] == 1 else block_count[block])
instname(block, count) ==
  "inst_" \o block \o (IF count = 1 THEN "" ELSE ToString(count))

\* BLOCK_TMPL.format(blockname=block, instname=instname, n=i): the three
\* substituted fields of one instantiation
BLOCK_TMPL(block, inst, i) == [blockname |-> block, instname |-> inst, n |-> i]

\* mutant of fifo_start: the fill loop starts one slot too late
fifo_start_off_by_one(blocks) == Len(blocks) + 1

fifo_start(blocks) == Len(blocks)

\* FILL_FIFO_TMPL.format(fifo_start=...): the lower bound of the generate loop
FILL_FIFO_TMPL(a) == IF a.fill_with_fifos THEN <<fifo_start(a.blocks)>> ELSE <<>>

\* for i, block in enumerate(blocks): i is 0-based, idx is the TLA+ position
RECURSIVE block_loop(_, _, _)
block_loop(blocks, idx, block_count) ==
  IF idx > Len(blocks) THEN <<>>
  ELSE LET block == blocks[idx]
           counted == [block_count EXCEPT ![block] = @ + 1]
       IN <<BLOCK_TMPL(block, instname(block, counted[block]), idx - 1)>>
          \o block_loop(blocks, idx + 1, counted)

\* the rendered text: HEADER_TMPL's NUM_CE, the instantiations in order, and
\* the fill loop when requested
render(a) ==
  [num_ce |-> num_ce(a),
   insts |-> block_loop(a.blocks, 1, [k \in {a.blocks[j] : j \in 1..Len(a.blocks)} |-> 0]),
   fill |-> FILL_FIFO_TMPL(a)]

NoVfile == [num_ce |-> 0, insts |-> <<>>, fill |-> <<>>]

\* --------------------------------------------------- device_dict / dtarget
lower(d) == IF d = "X310" THEN "x310" ELSE d

build_dir == [x300 |-> "x300", x310 |-> "x300", e300 |-> "e300", e310 |-> "e300"]

device_dict_ok(d) == d \in DOMAIN build_dir

device_dict(d) == build_dir[d]

default_trgt == [x300 |-> "X300_RFNOC_HG", x310 |-> "X310_RFNOC_HG", e310 |-> "E310_RFNOC_HLS"]

dtarget_ok(a) == a.target # None \/ a.device \in DOMAIN default_trgt

dtarget(a) == IF a.target = None THEN default_trgt[a.device] ELSE a.target

\* ----------------------------------------- append_item_into_file, one dir
\* the body of the loop after checkdir_v: what is written to the destination
\* file, whether it is written at all, and whether the miss is reported
patch_found(oldfile, dirs, oot) ==
  LET prefixlines == findall(prefixpattern(dirs), oldfile)
      lines == findall(linepattern, oldfile)
      last_line == IF Len(prefixlines) = 0 THEN lines[Len(lines)]
                   ELSE prefixlines[Len(prefixlines)]
      srcs == IF Len(prefixlines) = 0 THEN join(readfile(oot))
              ELSE join(compare(oot, oldfile))
  IN [written |-> TRUE, reported |-> FALSE, last_line |-> last_line, srcs |-> srcs,
      newfile |-> replace(oldfile, last_line, last_line \o srcs)]

pattern_missing(oldfile, dirs) ==
  /\ Len(findall(prefixpattern(dirs), oldfile)) = 0
  /\ Len(findall(linepattern, oldfile)) = 0

\* mutant of patch: a missing anchor makes the step append at the end of the
\* file, as append_re_line_sequence does
patch_appends_when_missing(oldfile, dirs, oot) ==
  IF pattern_missing(oldfile, dirs)
  THEN [written |-> TRUE, reported |-> TRUE, last_line |-> <<>>,
        srcs |-> join(readfile(oot)), newfile |-> oldfile \o join(readfile(oot))]
  ELSE patch_found(oldfile, dirs, oot)

patch(oldfile, dirs, oot) ==
  IF pattern_missing(oldfile, dirs)
  THEN [written |-> FALSE, reported |-> TRUE, last_line |-> <<>>, srcs |-> <<>>,
        newfile |-> oldfile]
  ELSE patch_found(oldfile, dirs, oot)

\* ------------------------------------------------------------------- state
VARIABLES
  args,         \* the parsed command line (include_dir: <<>> stands for None)
  top_isdir,    \* the build tree top/<target_dir> exists
  run,          \* number of the current run of the script
  pc,           \* position of the run inside main()
  vfile,        \* the text returned by create_vfiles
  default_file, \* top/<target_dir>/rfnoc_ce_auto_inst_<device>.v
  out_file,     \* the file named by -o
  dest_srcs,    \* top/<target_dir>/Makefile.srcs
  oot_srcs,     \* <include dir>/Makefile.srcs, per include directory
  i,            \* position of the loop of append_item_into_file
  written,      \* generated files written by this run
  patched_idx,  \* loop positions whose write of dest_srcs happened in this run
  prev_patched, \* include directories patched in by an earlier run
  make_cmd,     \* the command lines given to os.system by this run
  shell,        \* how the shell of os.system ended
  ret_val,      \* the value main() returns (-1: none yet)
  exit_status,  \* the exit status of the process (-1: still running)
  exit_in,      \* where the process ended
  stdout        \* the messages printed by this run

vars == <<args, top_isdir, run, pc, vfile, default_file, out_file, dest_srcs, oot_srcs,
          i, written, patched_idx, prev_patched, make_cmd, shell, ret_val,
          exit_status, exit_in, stdout>>

NoShell == [kind |-> "none", n |-> 0]

Fresh ==
  /\ pc = "create_vfiles"
  /\ vfile = NoVfile
  /\ i = 0
  /\ written = {}
  /\ patched_idx = {}
  /\ make_cmd = <<>>
  /\ shell = NoShell
  /\ ret_val = -1
  /\ exit_status = -1
  /\ exit_in = None
  /\ stdout = {}

\* command lines and trees for the rendering and exit-status statements
Init ==
  /\ args \in [blocks : SeqsUpTo(BlockNames, MaxLen),
               max_num_blocks : 1..MaxSlots,
               fill_with_fifos : BOOLEAN,
               outfile : OutFiles,
               device : Devices,
               target : Targets,
               GUI : {FALSE},
               include_dir : {<<>>, <<Dir1>>}]
  /\ top_isdir \in BOOLEAN
  /\ run = 1
  /\ default_file = NoVfile
  /\ out_file = NoVfile
  /\ dest_srcs \in {<<>>, linepattern}
  /\ oot_srcs = [d \in {Dir1, Dir2} |-> prefixpattern(d) \o <<d \o "x.v \\", NL, ")", NL>>]
  /\ prev_patched = {}
  /\ Fresh

DestTokens == {linepattern[1], prefixpattern(Dir1)[1], NL, "b.v \\"}
OotTokens == {prefixpattern(Dir1)[1], NL, "a.v \\"}

\* command lines and trees for the statements about the include-merge step
InitMerge ==
  /\ args \in [blocks : {<<"a">>},
               max_num_blocks : {MaxSlots},
               fill_with_fifos : {FALSE},
               outfile : OutFiles,
               device : {"x310"},
               target : {None},
               GUI : {TRUE},
               include_dir : {<<Dir1>>, <<Dir1, Dir2>>}]
  /\ top_isdir = TRUE
  /\ run = 1
  /\ default_file = NoVfile
  /\ out_file = NoVfile
  /\ dest_srcs \in SeqsUpTo(DestTokens, MaxDestLen)
  /\ \E c \in SeqsUpTo(OotTokens, MaxOotLen) :
       oot_srcs = [d \in {Dir1, Dir2} |->
                    IF d = Dir1 THEN c ELSE prefixpattern(Dir2) \o <<"c.v \\", NL>>]
  /\ prev_patched = {}
  /\ Fresh

\* ----------------------------------------------------------------- actions
\* the process ends with the given status
Ends(status, where) ==
  /\ pc' = "exited"
  /\ exit_status' = status
  /\ exit_in' = where

create_vfiles ==
  /\ pc = "create_vfiles"
  /\ IF no_blocks(args.blocks)
     THEN /\ stdout' = stdout \cup {"No blocks specified!"}
          /\ Ends(1, "create_vfiles")
          /\ UNCHANGED vfile
     ELSE IF too_many(args.blocks, args.max_num_blocks)
     THEN /\ stdout' = stdout \cup {"Trying to connect too many blocks"}
          /\ Ends(1, "create_vfiles")
          /\ UNCHANGED vfile
     ELSE /\ vfile' = render(args)
          /\ pc' = "file_generator"
          /\ UNCHANGED <<stdout, exit_status, exit_in>>
  /\ UNCHANGED <<args, top_isdir, run, default_file, out_file, dest_srcs, oot_srcs, i,
                 written, patched_idx, prev_patched, make_cmd, shell, ret_val>>

file_generator ==
  /\ pc = "file_generator"
  /\ IF ~device_dict_ok(lower(args.device))
     THEN /\ Ends(1, "KeyError")
          /\ UNCHANGED <<default_file, out_file, written, i>>
     ELSE IF args.outfile = None
     THEN IF top_isdir
          THEN /\ default_file' = vfile
               /\ written' = written \cup {"default"}
               /\ pc' = "append_item_into_file"
               /\ i' = 1
               /\ UNCHANGED <<out_file, exit_status, exit_in>>
          ELSE /\ Ends(1, "IOError")
               /\ UNCHANGED <<default_file, out_file, written, i>>
     ELSE /\ out_file' = vfile
          /\ written' = written \cup {"outfile"}
          /\ pc' = "append_item_into_file"
          /\ i' = 1
          /\ UNCHANGED <<default_file, exit_status, exit_in>>
  /\ UNCHANGED <<args, top_isdir, run, vfile, dest_srcs, oot_srcs, patched_idx,
                 prev_patched, make_cmd, shell, ret_val, stdout>>

\* one turn of the loop over args.include_dir; nfiles is what glob finds
append_item_into_file ==
  /\ pc = "append_item_into_file"
  /\ i <= Len(args.include_dir)
  /\ \E nfiles \in 0..1 :
       LET dirs == args.include_dir[i]
           r == patch(dest_srcs, dirs, oot_srcs[dirs])
       IN IF nfiles = 0
          THEN /\ stdout' = stdout \cup {"[ERROR] No verilog files found in the given directory"}
               /\ Ends(0, "checkdir_v")
               /\ UNCHANGED <<dest_srcs, i, patched_idx>>
          ELSE IF ~top_isdir
          THEN /\ stdout' = stdout \cup {"Verilog sources found!"}
               /\ Ends(1, "IOError")
               /\ UNCHANGED <<dest_srcs, i, patched_idx>>
          ELSE IF r.written
          THEN /\ stdout' = stdout \cup {"Verilog sources found!"}
               /\ dest_srcs' = r.newfile
               /\ patched_idx' = patched_idx \cup {i}
               /\ i' = i + 1
               /\ UNCHANGED <<pc, exit_status, exit_in>>
          ELSE /\ stdout' = stdout \cup {"Verilog sources found!", "Pattern not found"}
               /\ pc' = "main"
               /\ UNCHANGED <<dest_srcs, i, patched_idx, exit_status, exit_in>>
  /\ UNCHANGED <<args, top_isdir, run, vfile, default_file, out_file, oot_srcs, written,
                 prev_patched, make_cmd, shell, ret_val>>

\* the loop is over (or args.include_dir is None): back in main()
append_item_return ==
  /\ pc = "append_item_into_file"
  /\ i > Len(args.include_dir)
  /\ pc' = "main"
  /\ UNCHANGED <<args, top_isdir, run, vfile, default_file, out_file, dest_srcs, oot_srcs,
                 i, written, patched_idx, prev_patched, make_cmd, shell, ret_val,
                 exit_status, exit_in, stdout>>

make_line(a) ==
  "source ./setupenv.sh && make " \o dtarget(a) \o (IF a.GUI THEN " GUI=1" ELSE "")

\* main() with no -o: return build(args)
build ==
  /\ pc = "main"
  /\ args.outfile = None
  /\ IF ~top_isdir
     THEN /\ Ends(1, "UnboundLocalError")
          /\ UNCHANGED <<make_cmd, shell, ret_val>>
     ELSE IF ~dtarget_ok(args)
     THEN /\ Ends(1, "KeyError")
          /\ UNCHANGED <<make_cmd, shell, ret_val>>
     ELSE \E o \in ShellOutcomes :
            /\ make_cmd' = Append(make_cmd, make_line(args))
            /\ shell' = o
            /\ ret_val' = wait_status(o)
            /\ pc' = "exit"
            /\ UNCHANGED <<exit_status, exit_in>>
  /\ UNCHANGED <<args, top_isdir, run, vfile, default_file, out_file, dest_srcs, oot_srcs,
                 i, written, patched_idx, prev_patched, stdout>>

\* main() with -o: print and return 0
no_build ==
  /\ pc = "main"
  /\ args.outfile # None
  /\ stdout' = stdout \cup {"Instantiation file generated"}
  /\ ret_val' = 0
  /\ pc' = "exit"
  /\ UNCHANGED <<args, top_isdir, run, vfile, default_file, out_file, dest_srcs, oot_srcs,
                 i, written, patched_idx, prev_patched, make_cmd, shell, exit_status,
                 exit_in>>

\* exit(main()): the process exit keeps the low 8 bits of the value
exit_code(v) == v % 256

main_exit ==
  /\ pc = "exit"
  /\ Ends(exit_code(ret_val), "main")
  /\ UNCHANGED <<args, top_isdir, run, vfile, default_file, out_file, dest_srcs, oot_srcs,
                 i, written, patched_idx, prev_patched, make_cmd, shell, ret_val, stdout>>

\* the script is started again with the same command line on the same tree
Rerun ==
  /\ pc = "exited"
  /\ run < MaxRuns
  /\ run' = run + 1
  /\ prev_patched' = prev_patched \cup {args.include_dir[k] : k \in patched_idx}
  /\ pc' = "create_vfiles"
  /\ vfile' = NoVfile
  /\ i' = 0
  /\ written' = {}
  /\ patched_idx' = {}
  /\ make_cmd' = <<>>
  /\ shell' = NoShell
  /\ ret_val' = -1
  /\ exit_status' = -1
  /\ exit_in' = None
  /\ stdout' = {}
  /\ UNCHANGED <<args, top_isdir, default_file, out_file, dest_srcs, oot_srcs>>

Next ==
  \/ create_vfiles
  \/ file_generator
  \/ append_item_into_file
  \/ append_item_return
  \/ build
  \/ no_build
  \/ main_exit
  \/ Rerun

Spec == Init /\ [][Next]_vars

SpecMerge == InitMerge /\ [][Next]_vars

\* ----------------------------------------------------------------- claims
\* the block list passes the two checks of create_vfiles
ValidList == Len(args.blocks) >= 1 /\ Len(args.blocks) <= args.max_num_blocks

\* create_vfiles has returned its text in this run
Rendered == ValidList /\ pc # "create_vfiles"

\* the number of the occurrence of blocks[k] among blocks[1..k]
Occurrence(blocks, k) == Cardinality({j \in 1..k : blocks[j] = blocks[k]})

\* C1: for a block list of length 1..max_num_blocks the rendered text has
\* exactly len(blocks) instantiations, in input order; the i-th (0-based)
\* instantiates blocks[i] on slot i and is named inst_<name> for the first
\* occurrence of the name and inst_<name><k> for its k-th occurrence, k >= 2.
C1_InstancesInOrder ==
  Rendered =>
    /\ Len(vfile.insts) = Len(args.blocks)
    /\ \A k \in 1..Len(args.blocks) :
         LET occ == Occurrence(args.blocks, k)
         IN /\ vfile.insts[k].blockname = args.blocks[k]
            /\ vfile.insts[k].n = k - 1
            /\ vfile.insts[k].instname =
                 IF occ = 1 THEN "inst_" \o args.blocks[k]
                 ELSE "inst_" \o args.blocks[k] \o ToString(occ)

C1_Witness ==
  /\ pc = "file_generator"
  /\ args.blocks = <<"a", "a2", "a">>
  /\ vfile.insts[3] = [blockname |-> "a", instname |-> "inst_a2", n |-> 2]

\* C2: for any block list within the maximum, the generated instance names
\* are pairwise distinct.
C2_UniqueInstanceNames ==
  Rendered =>
    \A j, k \in 1..Len(vfile.insts) :
      j # k => vfile.insts[j].instname # vfile.insts[k].instname

\* C3: an empty block list, or one longer than max_num_blocks, ends the run
\* with exit status 1 inside create_vfiles: no generated file is written, no
\* destination source list is patched and the build command is not invoked.
C3_InvalidListWritesNothing ==
  ((Len(args.blocks) = 0 \/ Len(args.blocks) > args.max_num_blocks)
     /\ pc # "create_vfiles") =>
    /\ pc = "exited"
    /\ exit_status = 1
    /\ exit_in = "create_vfiles"
    /\ written = {}
    /\ default_file = NoVfile
    /\ out_file = NoVfile
    /\ patched_idx = {}
    /\ prev_patched = {}
    /\ make_cmd = <<>>

C3_Witness ==
  /\ pc = "exited"
  /\ exit_in = "create_vfiles"
  /\ Len(args.blocks) = args.max_num_blocks + 1
  /\ args.outfile # None
  /\ args.include_dir # <<>>
  /\ run = MaxRuns

\* the step of append_item_into_file for the directory at position i that
\* passes checkdir_v
MergeStep ==
  /\ pc = "append_item_into_file"
  /\ i <= Len(args.include_dir)
  /\ pc' # "exited"

Occurs(p, s) == \E at \in 1..Len(s) : starts_with(s, p, at)

\* C4: running the include-merge step again, with the same include
\* directories, on a destination file that an earlier run patched leaves the
\* destination file unchanged, whatever the companion file contains.
C4_MergeIdempotent ==
  [][(MergeStep /\ args.include_dir[i] \in prev_patched) => dest_srcs' = dest_srcs]_vars

\* C5: an include directory without sources ends the run at once with exit
\* status 1; no destination file is patched for it or a later directory and
\* the build command is not invoked.
C5_CheckdirExitsWithOne ==
  exit_in = "checkdir_v" =>
    /\ exit_status = 1
    /\ \A k \in patched_idx : k < i
    /\ make_cmd = <<>>

\* the shell of os.system reported a failure of the build command
BuildFailed == shell.kind # "none" /\ ~(shell.kind = "exited" /\ shell.n = 0)

\* C6: a validated run ends with status 0 and no build when -o is given;
\* otherwise its status is the status of the build command, reduced modulo
\* 256, and it is nonzero whenever the build command fails.
C6_BuildFailureSurfaces ==
  (pc = "exited" /\ exit_in = "main") =>
    IF args.outfile # None
    THEN exit_status = 0 /\ make_cmd = <<>>
    ELSE /\ exit_status = ret_val % 256
         /\ BuildFailed => exit_status # 0

\* C7: when the destination file has neither the addprefix line of the
\* include directory nor the RFNOC_OOT_SRCS anchor line, the miss is reported
\* and the destination file is left as it was.
C7_MissingAnchorLeavesFile ==
  [][(/\ MergeStep
      /\ ~Occurs(prefixpattern(args.include_dir[i]), dest_srcs)
      /\ ~Occurs(linepattern, dest_srcs))
     => (dest_srcs' = dest_srcs /\ "Pattern not found" \in stdout')]_vars

C7_Witness ==
  /\ "Pattern not found" \in stdout
  /\ pc = "main"
  /\ Len(dest_srcs) = MaxDestLen
  /\ oot_srcs[Dir1] # <<>>
  /\ patched_idx = {}

\* s with new put in once, right after the last occurrence of p
InsertAfterLast(s, p, new) ==
  LET at == CHOOSE a \in 1..Len(s) :
              /\ starts_with(s, p, a)
              /\ \A b \in (a + 1)..Len(s) : ~starts_with(s, p, b)
      cut == at + Len(p) - 1
  IN SubSeq(s, 1, cut) \o new \o SubSeq(s, cut + 1, Len(s))

\* C8: a patch of the destination file inserts the new entries at exactly one
\* place, right after the last occurrence of the matching anchor line, and
\* leaves the rest of the file as it was, also when the anchor line occurs
\* more than once.
C8_InsertedOnceAfterLastAnchor ==
  [][(MergeStep /\ patched_idx' # patched_idx) =>
       LET found == patch_found(dest_srcs, args.include_dir[i],
                                oot_srcs[args.include_dir[i]])
       IN dest_srcs' = InsertAfterLast(dest_srcs, found.last_line, found.srcs)]_vars

\* C9: for every device name the build-directory mapping accepts, matched
\* without regard to case, a validated run with no -o reaches the build
\* command, with the default target of the device when no target is given
\* and with the given target otherwise.
C9_EveryDeviceBuilds ==
  (/\ pc = "exited"
   /\ exit_in \notin {"create_vfiles", "checkdir_v"}
   /\ lower(args.device) \in {"x300", "x310", "e300", "e310"}
   /\ args.outfile = None
   /\ top_isdir) =>
    /\ exit_in = "main"
    /\ Len(make_cmd) = 1
    /\ args.target # None => make_cmd[1] = "source ./setupenv.sh && make " \o args.target

\* the number of instances that drive slot s in the rendered text
Drivers(v, s) ==
  Cardinality({k \in 1..Len(v.insts) : v.insts[k].n = s})
  + (IF v.fill # <<>> /\ v.fill[1] <= s /\ s < v.num_ce THEN 1 ELSE 0)

\* C10: in the rendered text every slot 0..NUM_CE-1 is driven by exactly one
\* instance: with --fill-with-fifos NUM_CE is max_num_blocks, the named
\* blocks take slots 0..L-1 and the fill loop takes L..max_num_blocks-1;
\* without it NUM_CE is L and there is no fill loop.
C10_EverySlotDrivenOnce ==
  Rendered =>
    LET L == Len(args.blocks)
    IN /\ \A s \in 0..(vfile.num_ce - 1) : Drivers(vfile, s) = 1
       /\ {vfile.insts[k].n : k \in 1..Len(vfile.insts)} = 0..(L - 1)
       /\ IF args.fill_with_fifos
          THEN vfile.num_ce = args.max_num_blocks /\ vfile.fill = <<L>>
          ELSE vfile.num_ce = L /\ vfile.fill = <<>>

C10_Witness ==
  /\ pc = "append_item_into_file"
  /\ args.fill_with_fifos
  /\ Len(args.blocks) = 1
  /\ vfile.num_ce = MaxSlots
  /\ vfile.fill = <<1>>
  /\ default_file = vfile
====
